---- MODULE Spec2Model ----
(***************************************************************************)
(* Model of idgenerator.IDGenerator (src/idgenerator/idgenerator.go).      *)
(*                                                                         *)
(* The generator's fields are variables.  Every goroutine that uses the    *)
(* generator is a thread with a program counter; a call is a sequence of   *)
(* steps (Lock, the first read, one step per loop iteration, the return    *)
(* with its deferred Unlock), so that calls of different threads           *)
(* interleave exactly where the mutex lets them.                           *)
(*                                                                         *)
(* usedMap is a map[int64]bool whose values are always true and which is   *)
(* only ever tested for the presence of a key, so it is modelled as the    *)
(* set of its keys.  Ranges are those whose size maxValue - minValue + 1   *)
(* fits an int64, so no arithmetic of the code overflows.  The trace       *)
(* output of FreeID (fmt.Printf) is not part of the state.                 *)
(***************************************************************************)
EXTENDS Integers, Sequences, FiniteSets, TLC

\* ------------------------------------------------------------------ bounds
NumThreads == 2          \* goroutines calling the generator
MaxMin == 1              \* minValue ranges over 0..MaxMin
MaxRange == 2            \* valueRange ranges over 1..MaxRange
CallsPerThread == 2      \* calls per goroutine in the counted specification

Threads == 1..NumThreads
NoThread == 0

VARIABLES
    minValue, maxValue, valueRange, offset, usedMap,   \* the IDGenerator
    lock,                                              \* holder of the mutex
    pc, arg, offsetBegin, current, id,                 \* per-thread position and locals
    iters, pre,                                        \* per call: loop iterations, state at Lock
    last,                                              \* the call that returned in the last step
    prev,                                              \* the call that returned before that
    held,                                              \* IDs returned and not since passed to FreeID
    seqOffset, seqUsedMap,                             \* state of the one-call-at-a-time execution
    counted, ncalls, hist                              \* counted runs: calls made, results in order

gen == <<minValue, maxValue, valueRange>>
vars == <<minValue, maxValue, valueRange, offset, usedMap, lock, pc, arg,
          offsetBegin, current, id, iters, pre, last, prev, held,
          seqOffset, seqUsedMap, counted, ncalls, hist>>

\* ------------------------------------------------------- arguments of calls
\* Arguments offered to AllocateWithOffset and FreeID: the range and one
\* value on either side of it.
Offsets == 0..(maxValue + 1)
IDs == (minValue - 1)..(maxValue + 1)

\* ---------------------------------------------------------- pure helpers
updateOffsetNoWrap(o) == o + 1

updateOffset(o) == (o + 1) % valueRange

AllocateExhaustedAtZero(o, begin) == o = 0

AllocateExhausted(o, begin) == o = begin

AllocateIDNoMin(o) == o

AllocateID(o) == o + minValue

WithOffsetExhaustedOneLate(c) == c > maxValue + 1

WithOffsetExhausted(c) == c > maxValue

WithOffsetIDPlusMin(c) == c + minValue

WithOffsetID(c) == c

FreeIDOutOfRangeLowOnly(i) == i < minValue

FreeIDOutOfRange(i) == i < minValue \/ i > maxValue

FreeIDDeleteToggle(used, i) == IF i \in used THEN used \ {i} ELSE used \cup {i}

FreeIDDelete(used, i) == used \ {i}

\* sync.Mutex: Lock blocks until the mutex is free, Unlock frees it.
LockNoWait(t) == lock' = t

Lock(t) == lock = NoThread /\ lock' = t

Unlock(t) == lock' = NoThread

\* ------------------------------------ the calls run one at a time (atomic)
Result(okv, idv, off, used) == [ok |-> okv, id |-> idv, offset |-> off, usedMap |-> used]

RECURSIVE SeqAllocateLoop(_, _, _)
SeqAllocateLoop(off, begin, used) ==
    IF off \in used
    THEN LET n == updateOffset(off)
         IN  IF AllocateExhausted(n, begin)
             THEN Result(FALSE, 0, n, used)
             ELSE SeqAllocateLoop(n, begin, used)
    ELSE Result(TRUE, AllocateID(off), updateOffset(off), used \cup {off})

SeqAllocate(off, used) == SeqAllocateLoop(off, off, used)

RECURSIVE SeqWithOffsetLoop(_, _, _)
SeqWithOffsetLoop(c, off, used) ==
    IF c \in used
    THEN IF WithOffsetExhausted(c + 1)
         THEN Result(FALSE, 0, off, used)
         ELSE SeqWithOffsetLoop(c + 1, off, used)
    ELSE Result(TRUE, WithOffsetID(c), off, used \cup {c})

SeqAllocateWithOffset(o, off, used) == SeqWithOffsetLoop(o, off, used)

SeqFreeID(i, off, used) ==
    IF FreeIDOutOfRange(i)
    THEN Result(TRUE, 0, off, used)
    ELSE Result(TRUE, 0, off, FreeIDDelete(used, i))

SeqCall(op, a, off, used) ==
    CASE op = "Allocate" -> SeqAllocate(off, used)
      [] op = "AllocateWithOffset" -> SeqAllocateWithOffset(a, off, used)
      [] OTHER -> SeqFreeID(a, off, used)

\* ------------------------------------------------------------------- Init
NoPre == [offset |-> 0, usedMap |-> {}]
NoPrev == [op |-> "none", arg |-> 0, full |-> FALSE, wasHeld |-> FALSE]
NoCall == [op |-> "none", t |-> NoThread, arg |-> 0, ok |-> FALSE, id |-> 0,
           preOffset |-> 0, preUsedMap |-> {}, wasHeld |-> FALSE, iters |-> 0,
           seqOk |-> FALSE, seqId |-> 0, prev |-> NoPrev]

\* NewGenerator(minValue, maxValue) with minValue <= maxValue, lines 22-34.
NewGenerator(mn, mx) ==
    /\ minValue = mn
    /\ maxValue = mx
    /\ valueRange = mx - mn + 1
    /\ offset = 0
    /\ usedMap = {}

InitRest ==
    /\ lock = NoThread
    /\ pc = [t \in Threads |-> "idle"]
    /\ arg = [t \in Threads |-> 0]
    /\ offsetBegin = [t \in Threads |-> 0]
    /\ current = [t \in Threads |-> 0]
    /\ id = [t \in Threads |-> 0]
    /\ iters = [t \in Threads |-> 0]
    /\ pre = [t \in Threads |-> NoPre]
    /\ last = NoCall
    /\ prev = NoPrev
    /\ held = {}
    /\ seqOffset = 0
    /\ seqUsedMap = {}
    /\ ncalls = [t \in Threads |-> 0]
    /\ hist = <<>>

Init ==
    /\ \E mn \in 0..MaxMin : \E n \in 1..MaxRange : NewGenerator(mn, mn + n - 1)
    /\ InitRest
    /\ counted = FALSE

\* A counted run: every thread makes at most CallsPerThread calls and the
\* results are kept in the order of the returns.  The ranges go one beyond
\* the number of calls, so that both exhaustion and spare room happen.
InitCounted ==
    /\ \E mn \in 0..MaxMin : \E n \in 1..(NumThreads * CallsPerThread + 1) :
           NewGenerator(mn, mn + n - 1)
    /\ InitRest
    /\ counted = TRUE

\* ------------------------------------------------------- steps of a call
\* A step inside a call that does not return.
Stay(t) ==
    /\ last' = NoCall
    /\ UNCHANGED <<gen, lock, arg, pre, prev, held, seqOffset, seqUsedMap,
                   counted, ncalls, hist>>

Full(used) == \A o \in 0..(valueRange - 1) : o \in used

\* The return of a call: the results are fixed, the deferred Unlock runs
\* (lines 39, 62, 85) and the thread is back in its caller.
Return(t, op, okv, idv) ==
    LET seq == SeqCall(op, arg[t], seqOffset, seqUsedMap)
    IN  /\ Unlock(t)
        /\ pc' = [pc EXCEPT ![t] = "idle"]
        /\ arg' = [arg EXCEPT ![t] = 0]
        /\ offsetBegin' = [offsetBegin EXCEPT ![t] = 0]
        /\ current' = [current EXCEPT ![t] = 0]
        /\ id' = [id EXCEPT ![t] = 0]
        /\ iters' = [iters EXCEPT ![t] = 0]
        /\ pre' = [pre EXCEPT ![t] = NoPre]
        /\ last' = [op |-> op, t |-> t, arg |-> arg[t], ok |-> okv, id |-> idv,
                    preOffset |-> pre[t].offset, preUsedMap |-> pre[t].usedMap,
                    wasHeld |-> IF op = "FreeID" THEN arg[t] \in held ELSE idv \in held,
                    iters |-> iters[t],
                    seqOk |-> seq.ok, seqId |-> seq.id, prev |-> prev]
        /\ prev' = [op |-> op, arg |-> arg[t],
                    full |-> Full(pre[t].usedMap) /\ (minValue..maxValue) \subseteq held,
                    wasHeld |-> IF op = "FreeID" THEN arg[t] \in held ELSE FALSE]
        /\ held' = IF op = "FreeID" THEN held \ {arg[t]}
                   ELSE IF okv THEN held \cup {idv} ELSE held
        /\ seqOffset' = seq.offset
        /\ seqUsedMap' = seq.usedMap
        /\ hist' = IF counted
                   THEN Append(hist, [op |-> op, t |-> t, ok |-> okv, id |-> idv])
                   ELSE hist
        /\ UNCHANGED <<gen, counted, ncalls>>

\* The caller enters op with argument a and takes the mutex (lines 38, 61, 84).
\* A caller still waiting in Lock has read nothing of the generator, so it is
\* not told apart from one that has not called yet.
Enter(t, op, a, to) ==
    /\ pc[t] = "idle"
    /\ counted => ncalls[t] < CallsPerThread
    /\ ncalls' = IF counted THEN [ncalls EXCEPT ![t] = @ + 1] ELSE ncalls
    /\ Lock(t)
    /\ pc' = [pc EXCEPT ![t] = to]
    /\ arg' = [arg EXCEPT ![t] = a]
    /\ pre' = [pre EXCEPT ![t] = [offset |-> offset, usedMap |-> usedMap]]
    /\ last' = NoCall
    /\ UNCHANGED <<gen, offset, usedMap, offsetBegin, current, iters, prev, held,
                   seqOffset, seqUsedMap, counted, hist>>

\* ---- Allocate, lines 37-57
\* line 38
AllocateLock(t) ==
    /\ Enter(t, "Allocate", 0, "a41")
    /\ UNCHANGED id

\* line 41
AllocateBegin(t) ==
    /\ pc[t] = "a41"
    /\ offsetBegin' = [offsetBegin EXCEPT ![t] = offset]
    /\ pc' = [pc EXCEPT ![t] = "a43"]
    /\ Stay(t)
    /\ UNCHANGED <<offset, usedMap, current, id, iters>>

\* line 43, the test of one loop iteration
AllocateTest(t) ==
    /\ pc[t] = "a43"
    /\ pc' = [pc EXCEPT ![t] = IF offset \in usedMap THEN "a44" ELSE "a53"]
    /\ iters' = [iters EXCEPT ![t] = @ + 1]
    /\ Stay(t)
    /\ UNCHANGED <<offset, usedMap, offsetBegin, current, id>>

\* line 44
AllocateAdvance(t) ==
    /\ pc[t] = "a44"
    /\ offset' = updateOffset(offset)
    /\ pc' = [pc EXCEPT ![t] = "a46"]
    /\ Stay(t)
    /\ UNCHANGED <<usedMap, offsetBegin, current, id, iters>>

\* line 46, the scan has not come round
AllocateAgain(t) ==
    /\ pc[t] = "a46"
    /\ ~AllocateExhausted(offset, offsetBegin[t])
    /\ pc' = [pc EXCEPT ![t] = "a43"]
    /\ Stay(t)
    /\ UNCHANGED <<offset, usedMap, offsetBegin, current, id, iters>>

\* lines 46-47, the scan is back where it began
AllocateFail(t) ==
    /\ pc[t] = "a46"
    /\ AllocateExhausted(offset, offsetBegin[t])
    /\ UNCHANGED <<offset, usedMap>>
    /\ Return(t, "Allocate", FALSE, 0)

\* line 53
AllocateMark(t) ==
    /\ pc[t] = "a53"
    /\ usedMap' = usedMap \cup {offset}
    /\ pc' = [pc EXCEPT ![t] = "a54"]
    /\ Stay(t)
    /\ UNCHANGED <<offset, offsetBegin, current, id, iters>>

\* line 54
AllocateSetID(t) ==
    /\ pc[t] = "a54"
    /\ id' = [id EXCEPT ![t] = AllocateID(offset)]
    /\ pc' = [pc EXCEPT ![t] = "a55"]
    /\ Stay(t)
    /\ UNCHANGED <<offset, usedMap, offsetBegin, current, iters>>

\* lines 55-56
AllocateDone(t) ==
    /\ pc[t] = "a55"
    /\ offset' = updateOffset(offset)
    /\ UNCHANGED usedMap
    /\ Return(t, "Allocate", TRUE, id[t])

\* ---- AllocateWithOffset, lines 60-79
\* line 61
WithOffsetLock(t) ==
    /\ \E o \in Offsets : Enter(t, "AllocateWithOffset", o, "w64")
    /\ UNCHANGED id

\* line 64
WithOffsetBegin(t) ==
    /\ pc[t] = "w64"
    /\ current' = [current EXCEPT ![t] = arg[t]]
    /\ pc' = [pc EXCEPT ![t] = "w66"]
    /\ Stay(t)
    /\ UNCHANGED <<offset, usedMap, offsetBegin, id, iters>>

\* line 66, the test of one loop iteration
WithOffsetTest(t) ==
    /\ pc[t] = "w66"
    /\ pc' = [pc EXCEPT ![t] = IF current[t] \in usedMap THEN "w67" ELSE "w76"]
    /\ iters' = [iters EXCEPT ![t] = @ + 1]
    /\ Stay(t)
    /\ UNCHANGED <<offset, usedMap, offsetBegin, current, id>>

\* lines 67-69, the next position is within maxValue
WithOffsetAdvance(t) ==
    /\ pc[t] = "w67"
    /\ ~WithOffsetExhausted(current[t] + 1)
    /\ current' = [current EXCEPT ![t] = @ + 1]
    /\ pc' = [pc EXCEPT ![t] = "w66"]
    /\ Stay(t)
    /\ UNCHANGED <<offset, usedMap, offsetBegin, id, iters>>

\* lines 67-70, the next position is beyond maxValue
WithOffsetFail(t) ==
    /\ pc[t] = "w67"
    /\ WithOffsetExhausted(current[t] + 1)
    /\ UNCHANGED <<offset, usedMap>>
    /\ Return(t, "AllocateWithOffset", FALSE, 0)

\* lines 76-78, with the cursor moved on as Allocate does
WithOffsetDoneMovesCursor(t) ==
    /\ pc[t] = "w76"
    /\ usedMap' = usedMap \cup {current[t]}
    /\ offset' = updateOffset(offset)
    /\ Return(t, "AllocateWithOffset", TRUE, WithOffsetID(current[t]))

\* lines 76-78
WithOffsetDone(t) ==
    /\ pc[t] = "w76"
    /\ usedMap' = usedMap \cup {current[t]}
    /\ UNCHANGED offset
    /\ Return(t, "AllocateWithOffset", TRUE, WithOffsetID(current[t]))

\* ---- FreeID, lines 83-91
\* line 84
FreeIDLock(t) ==
    /\ \E i \in IDs : Enter(t, "FreeID", i, "f86")
    /\ UNCHANGED id

\* lines 86-88
FreeIDIgnore(t) ==
    /\ pc[t] = "f86"
    /\ FreeIDOutOfRange(arg[t])
    /\ UNCHANGED <<offset, usedMap>>
    /\ Return(t, "FreeID", TRUE, 0)

\* lines 86, 89-90
FreeIDRemove(t) ==
    /\ pc[t] = "f86"
    /\ ~FreeIDOutOfRange(arg[t])
    /\ usedMap' = FreeIDDelete(usedMap, arg[t])
    /\ UNCHANGED offset
    /\ Return(t, "FreeID", TRUE, 0)

\* ------------------------------------------------------------------- Next
Next ==
    \E t \in Threads :
        \/ AllocateLock(t)
        \/ AllocateBegin(t)
        \/ AllocateTest(t)
        \/ AllocateAdvance(t)
        \/ AllocateAgain(t)
        \/ AllocateFail(t)
        \/ AllocateMark(t)
        \/ AllocateSetID(t)
        \/ AllocateDone(t)
        \/ WithOffsetLock(t)
        \/ WithOffsetBegin(t)
        \/ WithOffsetTest(t)
        \/ WithOffsetAdvance(t)
        \/ WithOffsetFail(t)
        \/ WithOffsetDone(t)
        \/ FreeIDLock(t)
        \/ FreeIDIgnore(t)
        \/ FreeIDRemove(t)

Spec == Init /\ [][Next]_vars

\* Only Allocate is called, by NumThreads threads, CallsPerThread times each.
NextAllocate ==
    \E t \in Threads :
        \/ AllocateLock(t)
        \/ AllocateBegin(t)
        \/ AllocateTest(t)
        \/ AllocateAdvance(t)
        \/ AllocateAgain(t)
        \/ AllocateFail(t)
        \/ AllocateMark(t)
        \/ AllocateSetID(t)
        \/ AllocateDone(t)

SpecAllocate == InitCounted /\ [][NextAllocate]_vars

\* ------------------------------------------------------------- claims
Returned == last.op # "none"
InRange(i) == minValue <= i /\ i <= maxValue
Unchanged == offset = last.preOffset /\ usedMap = last.preUsedMap
Successes == {i \in DOMAIN hist : hist[i].op # "FreeID" /\ hist[i].ok}
Frees == {i \in DOMAIN hist : hist[i].op = "FreeID"}
Distinct == \A i, j \in Successes : i # j => hist[i].id # hist[j].id
AllDone == \A t \in Threads : pc[t] = "idle" /\ ncalls[t] = CallsPerThread

\* C1: a successful Allocate never returns an ID that is held, that is, one an
\* earlier Allocate or AllocateWithOffset returned and that has not been
\* passed to FreeID since.
C1_AllocateReturnsUnheldID ==
    (last.op = "Allocate" /\ last.ok) => ~last.wasHeld

\* C2: when only Allocate is called, the IDs returned are pairwise distinct
\* and lie in [minValue, maxValue].
C2_AllocateOnlyDistinctInRange ==
    /\ Distinct
    /\ \A i \in Successes : InRange(hist[i].id)

C2_Witness ==
    /\ Cardinality(Successes) >= 3
    /\ \E i, j \in Successes : hist[i].t # hist[j].t

\* C3: when the whole range is allocated and FreeID(v) is called for one v of
\* the range, the next Allocate succeeds and returns v.
C3_ReuseAfterFree ==
    (last.op = "Allocate" /\ last.prev.op = "FreeID" /\ last.prev.full
        /\ InRange(last.prev.arg))
    => (last.ok /\ last.id = last.prev.arg)

\* C4: on a new generator of size n the first n Allocate calls succeed and
\* return exactly the values of [minValue, maxValue], and call n + 1 fails.
C4_ExhaustionAfterRange ==
    /\ \A i \in DOMAIN hist :
          /\ i <= valueRange => hist[i].ok
          /\ i = valueRange + 1 => ~hist[i].ok
    /\ Len(hist) >= valueRange =>
          {hist[i].id : i \in 1..valueRange} = minValue..maxValue

C4_Witness ==
    /\ valueRange = 3
    /\ Len(hist) = 4
    /\ ~hist[4].ok

\* C5: Allocate fails exactly when every offset of [0, valueRange) is in
\* usedMap; with one offset free it succeeds.
C5_AllocateFailsIffFull ==
    last.op = "Allocate" => (~last.ok <=> Full(last.preUsedMap))

C5_Witness ==
    /\ last.op = "Allocate"
    /\ ~last.ok
    /\ valueRange > 1
    /\ last.preOffset # 0

\* C6: NumThreads threads making CallsPerThread Allocate calls each on a range
\* of at least NumThreads * CallsPerThread values never get the same ID twice,
\* and when all calls are done usedMap has as many members as there were
\* successful allocations less frees.
C6_ConcurrentAllocate ==
    valueRange >= NumThreads * CallsPerThread =>
        /\ Distinct
        /\ AllDone =>
              Cardinality(usedMap) = Cardinality(Successes) - Cardinality(Frees)

C6_Witness ==
    /\ valueRange >= NumThreads * CallsPerThread
    /\ AllDone
    /\ Len(hist) = NumThreads * CallsPerThread
    /\ \E i \in 1..(Len(hist) - 2) :
          hist[i].t = hist[i + 2].t /\ hist[i].t # hist[i + 1].t

\* C7: the calls are linearizable.  Every call returns what the same call
\* returns when the calls run one at a time in the order of their returns,
\* between calls the generator is in the state that execution leaves, and a
\* call holds the mutex from before its first read until its return, on the
\* error path too.
C7_Linearizable ==
    /\ Returned => (last.ok = last.seqOk /\ last.id = last.seqId)
    /\ (\A t \in Threads : pc[t] = "idle") =>
          (offset = seqOffset /\ usedMap = seqUsedMap)
    /\ \A t \in Threads : pc[t] # "idle" <=> lock = t

C7_Witness ==
    /\ Returned
    /\ ~last.ok
    /\ last.t = 2
    /\ last.prev.op # "none"
    /\ last.iters > 1
    /\ lock = NoThread

\* C8: FreeID(id) with id outside [minValue, maxValue] changes neither
\* usedMap nor offset.
C8_FreeOutOfRangeNoOp ==
    (last.op = "FreeID" /\ ~InRange(last.arg)) => Unchanged

C8_Witness ==
    /\ last.op = "FreeID"
    /\ last.arg > maxValue
    /\ last.arg \in usedMap

\* C9: FreeID(id) twice in a row on an allocated ID leaves the generator as
\* FreeID(id) once does: the second call changes nothing.
C9_FreeTwiceAsOnce ==
    (last.op = "FreeID" /\ last.prev.op = "FreeID" /\ last.prev.arg = last.arg
        /\ last.prev.wasHeld)
    => Unchanged

C9_Witness ==
    /\ last.op = "FreeID"
    /\ last.prev.op = "FreeID"
    /\ last.prev.arg = last.arg
    /\ last.prev.wasHeld
    /\ InRange(last.arg)
    /\ usedMap # {}

\* C10: FreeID(id) for an id of [minValue, maxValue] that is not held changes
\* neither usedMap nor offset.
C10_FreeUnheldNoOp ==
    (last.op = "FreeID" /\ InRange(last.arg) /\ ~last.wasHeld) => Unchanged

\* C11: AllocateWithOffset(maxValue) with position maxValue free returns
\* maxValue, and AllocateWithOffset(maxValue) again, with no FreeID between,
\* fails.
C11_WithOffsetAtMax ==
    (last.op = "AllocateWithOffset" /\ last.arg = maxValue) =>
        /\ maxValue \notin last.preUsedMap => (last.ok /\ last.id = maxValue)
        /\ maxValue \in last.preUsedMap => ~last.ok
        /\ (last.prev.op = "AllocateWithOffset" /\ last.prev.arg = maxValue) => ~last.ok

C11_Witness ==
    /\ last.op = "AllocateWithOffset"
    /\ last.arg = maxValue
    /\ last.prev.op = "AllocateWithOffset"
    /\ last.prev.arg = maxValue
    /\ ~last.ok
    /\ maxValue \in held

\* C12: AllocateWithOffset(offset) succeeds only with a position p with
\* offset <= p <= maxValue, and no position above maxValue is ever returned
\* or put into usedMap.
C12_WithOffsetWithinMax ==
    /\ (last.op = "AllocateWithOffset" /\ last.ok) =>
          (last.arg <= last.id /\ last.id <= maxValue)
    /\ \A p \in usedMap : p <= maxValue

\* C13: a failing Allocate or AllocateWithOffset leaves offset and usedMap as
\* they were before the call.
C13_FailureChangesNothing ==
    (last.op \in {"Allocate", "AllocateWithOffset"} /\ ~last.ok) => Unchanged

C13_Witness ==
    /\ last.op = "Allocate"
    /\ ~last.ok
    /\ last.iters = valueRange
    /\ valueRange > 1
    /\ offset = valueRange - 1

\* C14: FreeID(id) with id in [minValue, maxValue] removes exactly the offset
\* id - minValue from usedMap and leaves the rest of usedMap and offset alone.
C14_FreeRemovesOffset ==
    (last.op = "FreeID" /\ InRange(last.arg)) =>
        /\ usedMap = last.preUsedMap \ {last.arg - minValue}
        /\ offset = last.preOffset

\* The first offset not in used in the cyclic order c, c + 1, ...,
\* valueRange - 1, 0, ..., c - 1; defined when some offset is free.
CyclicFirstFree(c, used) ==
    LET k == CHOOSE k \in 0..(valueRange - 1) :
                 /\ (c + k) % valueRange \notin used
                 /\ \A j \in 0..(k - 1) : (c + j) % valueRange \in used
    IN  (c + k) % valueRange

\* C15: a successful Allocate called with cursor c takes the first offset o
\* of the cyclic order from c that is not in usedMap, adds exactly o to
\* usedMap, returns o + minValue and leaves offset = (o + 1) mod valueRange.
C15_AllocateTakesFirstFree ==
    (last.op = "Allocate" /\ last.ok) =>
        LET o == CyclicFirstFree(last.preOffset, last.preUsedMap)
        IN  /\ o \notin last.preUsedMap
            /\ usedMap = last.preUsedMap \cup {o}
            /\ last.id = o + minValue
            /\ offset = (o + 1) % valueRange

C15_Witness ==
    /\ last.op = "Allocate"
    /\ last.ok
    /\ last.id - minValue < last.preOffset
    /\ last.iters > 1

\* C16: a successful AllocateWithOffset(offset) returns the smallest position
\* p >= offset that is not in usedMap, adds exactly p to usedMap, and returns
\* p itself, minValue not added.
C16_WithOffsetTakesSmallestFree ==
    (last.op = "AllocateWithOffset" /\ last.ok) =>
        /\ last.id >= last.arg
        /\ last.id \notin last.preUsedMap
        /\ \A q \in last.arg..(last.id - 1) : q \in last.preUsedMap
        /\ usedMap = last.preUsedMap \cup {last.id}

C16_Witness ==
    /\ last.op = "AllocateWithOffset"
    /\ last.ok
    /\ last.id > last.arg
    /\ minValue > 0

\* C17: every member of usedMap lies in [0, valueRange).
C17_UsedMapWithinRange ==
    \A o \in usedMap : 0 <= o /\ o < valueRange

\* C18: offset is always in [0, valueRange), and it changes only in a step
\* of a thread that is inside a call and holds the mutex.
C18_CursorValidAndLocked ==
    /\ [](0 <= offset /\ offset < valueRange)
    /\ [][offset' # offset => (lock \in Threads /\ pc[lock] # "idle")]_vars

C18_Witness ==
    \E t \in Threads :
        /\ lock = t
        /\ pc[t] = "a46"
        /\ valueRange > 1
        /\ pre[t].offset = valueRange - 1
        /\ offset = 0

\* C19: AllocateWithOffset never changes offset, on success or failure, at
\* any statement of the call.
C19_WithOffsetKeepsCursor ==
    /\ last.op = "AllocateWithOffset" => offset = last.preOffset
    /\ \A t \in Threads :
          pc[t] \in {"w64", "w66", "w67", "w76"} => offset = pre[t].offset

C19_Witness ==
    /\ last.op = "AllocateWithOffset"
    /\ last.ok
    /\ last.preOffset # 0
    /\ usedMap # last.preUsedMap

\* C20: the scan loop of Allocate and of AllocateWithOffset makes at most
\* valueRange iterations in a call (every call returns after them).
C20_ScanAtMostSizeIterations ==
    /\ \A t \in Threads : iters[t] <= valueRange
    /\ last.op \in {"Allocate", "AllocateWithOffset"} => last.iters <= valueRange

====
